---- MODULE Spec2Model ----
(***************************************************************************)
(* The sunpath task-bounty escrow program.  Two variants of the program    *)
(* are in the repository:                                                  *)
(*   "first_use"   src/src/lib.rs: payouts by invoke_signed system         *)
(*                 transfers, counters created by init_if_needed;          *)
(*   "pre_created" src/Program_sunpath/src/lib.rs: payouts by direct       *)
(*                 lamport arithmetic, counters created by                 *)
(*                 initialize_admin_counter.                               *)
(* A behaviour runs one variant, chosen in Init.                           *)
(*                                                                         *)
(* Every instruction is one transaction: the Accounts struct is validated, *)
(* the handler body runs statement by statement on a working copy of the   *)
(* accounts, and the working copy is committed only when the handler       *)
(* returns Ok.  Lamports are counted in excess of the rent-exempt reserve  *)
(* of an account.  i64 and u64 are scaled down to I64Min..I64Max and       *)
(* 0..U64Max so that checked_add overflows within the explored range.      *)
(***************************************************************************)
EXTENDS Integers, FiniteSets, Sequences, TLC

VARIABLES
    variant,    \* which program variant this behaviour runs
    config,     \* the ProgramConfig account (PDA "config_v2")
    tasks,      \* TaskAccount data by PDA key <<consigner, task_id>>
    counters,   \* AdminActionCounter data by wallet (PDA "admin_counter")
    balance,    \* lamports of the wallets
    custody,    \* lamports of the task PDAs
    now,        \* Clock::get()?.unix_timestamp
    last,       \* the last transaction: the instruction and its outcome
    payouts,    \* history: transfers made out of each task PDA, by instruction
    rejections  \* history: successful reject_task transactions on each task

vars == <<variant, config, tasks, counters, balance, custody, now, last, payouts,
          rejections>>

\* ---------------------------------------------------------------- bounds
I64Max == 3
U64Max == 1
MaxTime == 2
InitialLamports == 2

I64Min == -I64Max - 1
Variants == {"first_use", "pre_created"}
Wallets == {"alice", "bob"}
Consigners == {"alice"}
TaskIds == {1}
TaskKeys == Consigners \X TaskIds
RewardAmounts == 0..InitialLamports
Durations == {-1, 0, I64Max}
MinimumRewards == {1, 2}
PenaltyDurations == {-1, 0, 1, I64Max}

\* ------------------------------------------------------------ data model
TaskStatus == {"Open", "Approved", "Rejected", "Expired", "Reclaimed"}

\* An address at which no TaskAccount has been created.
NoTaskAccount ==
    [ is_initialized          |-> FALSE,
      task_id                 |-> 0,
      consigner_wallet        |-> "None",
      reward_amount_locked    |-> 0,
      creation_timestamp      |-> 0,
      duration_seconds        |-> 0,
      expiration_timestamp    |-> 0,
      status                  |-> "Open",
      status_update_timestamp |-> 0,
      assigned_reporter       |-> "None" ]

\* An address at which no AdminActionCounter has been created; `exists` is the
\* account's existence (owner and discriminator), the rest is Default.
NoCounter == [exists |-> FALSE, admin |-> "None", accept_count |-> 0, reject_count |-> 0]

NoConfig ==
    [ is_initialized          |-> FALSE,
      minimum_reward_amount   |-> 0,
      denial_penalty_duration |-> 0 ]

\* The accounts a transaction works on.
Accounts ==
    [ config   |-> config,
      tasks    |-> tasks,
      counters |-> counters,
      balance  |-> balance,
      custody  |-> custody ]

Ok(st) == [st |-> st, err |-> "Ok"]
Err(st, e) == [st |-> st, err |-> e]

\* Mutant: the addition wraps around instead of reporting the overflow.
checked_add_i64_wrapping(a, b) ==
    [is_some |-> TRUE,
     value   |-> ((a + b - I64Min) % (I64Max - I64Min + 1)) + I64Min]

\* i64::checked_add and u64::checked_add: an Option, None on overflow.
checked_add_i64(a, b) ==
    IF a + b > I64Max \/ a + b < I64Min
    THEN [is_some |-> FALSE, value |-> 0]
    ELSE [is_some |-> TRUE, value |-> a + b]

\* Mutant: the sum is dropped and the old value kept.
checked_add_u64_dropped(a, b) == [is_some |-> TRUE, value |-> a]

\* Mutant: the sum saturates at the maximum instead of failing.
checked_add_u64_saturating(a, b) ==
    [is_some |-> TRUE, value |-> IF a + b > U64Max THEN U64Max ELSE a + b]

checked_add_u64(a, b) ==
    IF a + b > U64Max
    THEN [is_some |-> FALSE, value |-> 0]
    ELSE [is_some |-> TRUE, value |-> a + b]

\* Mutant: the accounts written before the error are kept.
Commit_no_rollback(st, r) == r.st

\* The host runtime: a transaction that returns an error leaves no trace.
Commit(st, r) == IF r.err = "Ok" THEN r.st ELSE st

\* ------------------------------------------------------ balance transfers
\* invoke(system_instruction::transfer(consigner, task_account, amount)).
invoke_transfer(st, from, key, amount) ==
    IF st.balance[from] < amount
    THEN Err(st, "InsufficientFunds")
    ELSE Ok([st EXCEPT !.balance[from] = @ - amount, !.custody[key] = @ + amount])

\* invoke_signed(system_instruction::transfer(task_account, to, amount)) with the
\* account infos [task_account, to_account, system_program]: the instruction
\* names `to`, the runtime finds it only when it is the account passed.
invoke_signed_transfer(st, key, to, to_account, amount) ==
    IF to # to_account
    THEN Err(st, "MissingAccount")
    ELSE IF st.custody[key] < amount
    THEN Err(st, "InsufficientFunds")
    ELSE Ok([st EXCEPT !.custody[key] = @ - amount, !.balance[to_account] = @ + amount])

\* Mutant: the destination is credited and the source is not debited.
direct_lamport_transfer_credit_only(st, key, to_account, amount) ==
    IF st.custody[key] < amount
    THEN Err(st, "ArithmeticOverflow")
    ELSE Ok([st EXCEPT !.balance[to_account] = @ + amount])

\* **from.try_borrow_mut_lamports()? -= amount; **to.try_borrow_mut_lamports()? += amount;
direct_lamport_transfer(st, key, to_account, amount) ==
    IF st.custody[key] < amount
    THEN Err(st, "ArithmeticOverflow")
    ELSE Ok([st EXCEPT !.custody[key] = @ - amount, !.balance[to_account] = @ + amount])

\* ------------------------------------------------------ initialize_program
InitializeProgram(st) ==
    IF st.config.is_initialized THEN Err(st, "AccountAlreadyInUse") ELSE Ok(st)

initialize_program(st, minimum_reward_amount, denial_penalty_duration) ==
    Ok([st EXCEPT !.config =
        [ is_initialized          |-> TRUE,
          minimum_reward_amount   |-> minimum_reward_amount,
          denial_penalty_duration |-> denial_penalty_duration ]])

\* ------------------------------------------------ initialize_admin_counter
InitializeAdminCounter(st, admin) ==
    IF st.counters[admin].exists
    THEN Err(st, "AccountAlreadyInUse")
    ELSE Ok([st EXCEPT !.counters[admin] = [NoCounter EXCEPT !.exists = TRUE]])

initialize_admin_counter(st, admin) ==
    Ok([st EXCEPT !.counters[admin] =
        [exists |-> TRUE, admin |-> admin, accept_count |-> 0, reject_count |-> 0]])

\* ------------------------------------------------------------- create_task
\* Mutant: the task account is re-initialised when the address is in use
\* (init_if_needed in place of init).
CreateTask_init_if_needed(st, consigner, task_id) ==
    IF ~st.config.is_initialized THEN Err(st, "AccountNotInitialized") ELSE Ok(st)

\* Mutant: the task address is derived from the consigner alone, so all tasks
\* of one consigner share one address.
CreateTask_one_per_consigner(st, consigner, task_id) ==
    IF ~st.config.is_initialized
    THEN Err(st, "AccountNotInitialized")
    ELSE IF \E k \in DOMAIN st.tasks : k[1] = consigner /\ st.tasks[k].is_initialized
    THEN Err(st, "AccountAlreadyInUse")
    ELSE Ok(st)

\* The CreateTask accounts: config is loaded, task_account is created (init) at
\* the PDA of (consigner, task_id), which fails when the address is in use.
CreateTask(st, consigner, task_id) ==
    IF ~st.config.is_initialized
    THEN Err(st, "AccountNotInitialized")
    ELSE IF st.tasks[<<consigner, task_id>>].is_initialized
    THEN Err(st, "AccountAlreadyInUse")
    ELSE Ok(st)

\* Mutant: a reward equal to the minimum is refused.
reward_above_minimum(reward_amount, minimum_reward_amount) ==
    reward_amount > minimum_reward_amount

\* require!(reward_amount >= config.minimum_reward_amount, RewardAmountTooLow)
reward_sufficient(reward_amount, minimum_reward_amount) ==
    reward_amount >= minimum_reward_amount

create_task(st, consigner, task_id, reward_amount, duration_seconds, unix_timestamp) ==
    LET key == <<consigner, task_id>> IN
    IF ~reward_sufficient(reward_amount, st.config.minimum_reward_amount)
    THEN Err(st, "RewardAmountTooLow")
    ELSE
    LET t == invoke_transfer(st, consigner, key, reward_amount) IN
    IF t.err # "Ok" THEN t
    ELSE
    LET st1 == [t.st EXCEPT !.tasks[key] =
                    [@ EXCEPT !.task_id = task_id,
                              !.consigner_wallet = consigner,
                              !.reward_amount_locked = reward_amount,
                              !.creation_timestamp = unix_timestamp,
                              !.duration_seconds = duration_seconds]]
        expiration == checked_add_i64(unix_timestamp, duration_seconds)
    IN
    IF ~expiration.is_some
    THEN Err(st1, "TimestampOverflow")
    ELSE Ok([st1 EXCEPT !.tasks[key] =
                [@ EXCEPT !.expiration_timestamp = expiration.value,
                          !.status = "Open",
                          !.status_update_timestamp = unix_timestamp,
                          !.is_initialized = TRUE]])

\* ------------------------------------------------------------- accept_task
\* The AcceptTask / RejectTask accounts.  Accounts are loaded first: the
\* task_account must exist, and in the pre_created variant so must the
\* caller's admin_action_counter (Account<AdminActionCounter>).  In the
\* first_use variant the counter is created when absent (init_if_needed).
\* The has_one constraint on task_account is checked after that.
\* Mutant: both programs take the counter as an existing account.
LoadCounter_existing_only(st, var, consigner_wallet) ==
    IF st.counters[consigner_wallet].exists
    THEN Ok(st)
    ELSE Err(st, "AccountNotInitialized")

LoadCounter(st, var, consigner_wallet) ==
    IF st.counters[consigner_wallet].exists
    THEN Ok(st)
    ELSE IF var = "pre_created"
    THEN Err(st, "AccountNotInitialized")
    ELSE Ok([st EXCEPT !.counters[consigner_wallet] = [NoCounter EXCEPT !.exists = TRUE]])

\* Mutant: the has_one constraint is missing.
has_one_missing(st, key, consigner_wallet, error) == Ok(st)

has_one(st, key, consigner_wallet, error) ==
    IF st.tasks[key].consigner_wallet = consigner_wallet THEN Ok(st) ELSE Err(st, error)

AcceptTask(st, var, consigner_wallet, key) ==
    IF ~st.tasks[key].is_initialized
    THEN Err(st, "AccountNotInitialized")
    ELSE
    LET c == LoadCounter(st, var, consigner_wallet) IN
    IF c.err # "Ok" THEN c
    ELSE has_one(c.st, key, consigner_wallet, "NotTaskConsigner")

RejectTask(st, var, consigner_wallet, key) ==
    IF ~st.tasks[key].is_initialized
    THEN Err(st, "AccountNotInitialized")
    ELSE
    LET c == LoadCounter(st, var, consigner_wallet) IN
    IF c.err # "Ok" THEN c
    ELSE has_one(c.st, key, consigner_wallet, "NotTaskConsigner")

ReclaimTaskFunds(st, consigner_wallet, key) ==
    IF ~st.tasks[key].is_initialized
    THEN Err(st, "AccountNotInitialized")
    ELSE has_one(st, key, consigner_wallet, "NotConsigner")

\* The payout of accept_task and reclaim_task_funds, by variant.
payout(st, var, key, to, to_account, amount) ==
    IF var = "first_use"
    THEN invoke_signed_transfer(st, key, to, to_account, amount)
    ELSE direct_lamport_transfer(st, key, to_account, amount)

\* Mutant: the status check is missing.
status_unchecked(task_account) == TRUE

\* Mutant: the status check lets a rejected task be decided again.
status_open_or_rejected(task_account) == task_account.status \in {"Open", "Rejected"}

\* require_eq!(task_account.status, TaskStatus::Open, TaskNotOpen)
status_is_open(task_account) == task_account.status = "Open"

\* Mutant: the window is measured from the creation instant onwards.
not_expired_since_creation(unix_timestamp, task_account) ==
    unix_timestamp >= task_account.creation_timestamp

\* Mutant: the expiration instant itself counts as expired.
not_expired_strict(unix_timestamp, task_account) ==
    unix_timestamp < task_account.expiration_timestamp

\* require!(clock.unix_timestamp <= task_account.expiration_timestamp, TaskExpired)
not_expired(unix_timestamp, task_account) ==
    unix_timestamp <= task_account.expiration_timestamp

accept_task(st, var, consigner_wallet, key, recipient, recipient_account, unix_timestamp) ==
    LET task_account == st.tasks[key] IN
    IF ~status_is_open(task_account)
    THEN Err(st, "TaskNotOpen")
    ELSE IF ~not_expired(unix_timestamp, task_account)
    THEN Err(st, "TaskExpired")
    ELSE
    LET amount_to_transfer == task_account.reward_amount_locked
        t == payout(st, var, key, recipient, recipient_account, amount_to_transfer)
    IN
    IF t.err # "Ok" THEN t
    ELSE
    LET st1 == [t.st EXCEPT !.tasks[key] =
                    [@ EXCEPT !.status = "Approved",
                              !.status_update_timestamp = unix_timestamp,
                              !.assigned_reporter = recipient]]
        st2 == IF var = "first_use"
               THEN [st1 EXCEPT !.counters[consigner_wallet].admin = consigner_wallet]
               ELSE st1
        count == checked_add_u64(st2.counters[consigner_wallet].accept_count, 1)
    IN
    IF ~count.is_some
    THEN Err(st2, "CounterOverflow")
    ELSE Ok([st2 EXCEPT !.counters[consigner_wallet].accept_count = count.value])

\* ------------------------------------------------------------- reject_task
\* Mutant: the rejection hands the reward back to the consigner at once.
reject_task_refunding(st, var, consigner_wallet, key, unix_timestamp) ==
    LET task_account == st.tasks[key] IN
    IF ~status_is_open(task_account)
    THEN Err(st, "TaskNotOpen")
    ELSE IF ~not_expired(unix_timestamp, task_account)
    THEN Err(st, "TaskExpired")
    ELSE
    LET t == payout(st, var, key, consigner_wallet, consigner_wallet,
                    task_account.reward_amount_locked)
    IN
    IF t.err # "Ok" THEN t
    ELSE
    LET st1 == [t.st EXCEPT !.tasks[key] =
                    [@ EXCEPT !.status = "Rejected",
                              !.status_update_timestamp = unix_timestamp]]
        st2 == IF var = "first_use"
               THEN [st1 EXCEPT !.counters[consigner_wallet].admin = consigner_wallet]
               ELSE st1
        count == checked_add_u64(st2.counters[consigner_wallet].reject_count, 1)
    IN
    IF ~count.is_some
    THEN Err(st2, "CounterOverflow")
    ELSE Ok([st2 EXCEPT !.counters[consigner_wallet].reject_count = count.value])

reject_task(st, var, consigner_wallet, key, unix_timestamp) ==
    LET task_account == st.tasks[key] IN
    IF ~status_is_open(task_account)
    THEN Err(st, "TaskNotOpen")
    ELSE IF ~not_expired(unix_timestamp, task_account)
    THEN Err(st, "TaskExpired")
    ELSE
    LET st1 == [st EXCEPT !.tasks[key] =
                    [@ EXCEPT !.status = "Rejected",
                              !.status_update_timestamp = unix_timestamp]]
        st2 == IF var = "first_use"
               THEN [st1 EXCEPT !.counters[consigner_wallet].admin = consigner_wallet]
               ELSE st1
        count == checked_add_u64(st2.counters[consigner_wallet].reject_count, 1)
    IN
    IF ~count.is_some
    THEN Err(st2, "CounterOverflow")
    ELSE Ok([st2 EXCEPT !.counters[consigner_wallet].reject_count = count.value])

\* ------------------------------------------------------ reclaim_task_funds
\* Mutant: the lockup comparison is reversed.
lockup_passed_reversed(unix_timestamp, reclaim_allowed_at) ==
    unix_timestamp <= reclaim_allowed_at

\* Mutant: the lockup deadline itself is still locked.
lockup_passed_strict(unix_timestamp, reclaim_allowed_at) ==
    unix_timestamp > reclaim_allowed_at

\* if clock.unix_timestamp >= reclaim_allowed_at
lockup_passed(unix_timestamp, reclaim_allowed_at) == unix_timestamp >= reclaim_allowed_at

\* Mutant: the expired path does not look at the status.
can_reclaim_any_expired(task_account, denial_penalty_duration, unix_timestamp) ==
    IF task_account.status = "Rejected"
    THEN LET reclaim_allowed_at ==
                 checked_add_i64(task_account.status_update_timestamp,
                                 denial_penalty_duration)
         IN IF ~reclaim_allowed_at.is_some
            THEN "TimestampOverflow"
            ELSE IF unix_timestamp >= reclaim_allowed_at.value
            THEN "Ok"
            ELSE "DenialLockupActive"
    ELSE IF unix_timestamp > task_account.expiration_timestamp
    THEN "Ok"
    ELSE "CannotReclaimFunds"

\* Mutant: the denial lockup is applied to the expired path as well.
can_reclaim_lockup_everywhere(task_account, denial_penalty_duration, unix_timestamp) ==
    LET reclaim_allowed_at ==
            checked_add_i64(IF task_account.status = "Rejected"
                            THEN task_account.status_update_timestamp
                            ELSE task_account.expiration_timestamp,
                            denial_penalty_duration)
    IN
    IF task_account.status = "Rejected"
       \/ (task_account.status = "Open"
           /\ unix_timestamp > task_account.expiration_timestamp)
    THEN IF ~reclaim_allowed_at.is_some
         THEN "TimestampOverflow"
         ELSE IF unix_timestamp >= reclaim_allowed_at.value
         THEN "Ok"
         ELSE "DenialLockupActive"
    ELSE "CannotReclaimFunds"

\* The eligibility policy: "Ok" when can_reclaim, else the error returned.
can_reclaim(task_account, denial_penalty_duration, unix_timestamp) ==
    IF task_account.status = "Rejected"
    THEN LET reclaim_allowed_at ==
                 checked_add_i64(task_account.status_update_timestamp,
                                 denial_penalty_duration)
         IN IF ~reclaim_allowed_at.is_some
            THEN "TimestampOverflow"
            ELSE IF lockup_passed(unix_timestamp, reclaim_allowed_at.value)
            THEN "Ok"
            ELSE "DenialLockupActive"
    ELSE IF task_account.status = "Open"
            /\ unix_timestamp > task_account.expiration_timestamp
    THEN "Ok"
    ELSE "CannotReclaimFunds"

\* Mutant: the reclaim of an undecided, expired task marks it Expired.
reclaim_task_funds_marking_expired(st, var, consigner_wallet, key, unix_timestamp) ==
    LET task_account == st.tasks[key]
        amount_to_reclaim == task_account.reward_amount_locked
        eligible == can_reclaim(task_account, st.config.denial_penalty_duration,
                                unix_timestamp)
    IN
    IF eligible # "Ok"
    THEN Err(st, eligible)
    ELSE
    LET t == payout(st, var, key, consigner_wallet, consigner_wallet, amount_to_reclaim) IN
    IF t.err # "Ok" THEN t
    ELSE Ok([t.st EXCEPT !.tasks[key] =
                [@ EXCEPT !.status = IF task_account.status = "Open"
                                     THEN "Expired" ELSE "Reclaimed",
                          !.status_update_timestamp = unix_timestamp,
                          !.reward_amount_locked = 0]])

\* Mutant: the reclaim leaves status_update_timestamp as it was.
reclaim_task_funds_stale_timestamp(st, var, consigner_wallet, key, unix_timestamp) ==
    LET task_account == st.tasks[key]
        amount_to_reclaim == task_account.reward_amount_locked
        eligible == can_reclaim(task_account, st.config.denial_penalty_duration,
                                unix_timestamp)
    IN
    IF eligible # "Ok"
    THEN Err(st, eligible)
    ELSE
    LET t == payout(st, var, key, consigner_wallet, consigner_wallet, amount_to_reclaim) IN
    IF t.err # "Ok" THEN t
    ELSE Ok([t.st EXCEPT !.tasks[key] =
                [@ EXCEPT !.status = "Reclaimed",
                          !.reward_amount_locked = 0]])

reclaim_task_funds(st, var, consigner_wallet, key, unix_timestamp) ==
    LET task_account == st.tasks[key]
        amount_to_reclaim == task_account.reward_amount_locked
        eligible == can_reclaim(task_account, st.config.denial_penalty_duration,
                                unix_timestamp)
    IN
    IF eligible # "Ok"
    THEN Err(st, eligible)
    ELSE
    LET t == payout(st, var, key, consigner_wallet, consigner_wallet, amount_to_reclaim) IN
    IF t.err # "Ok" THEN t
    ELSE Ok([t.st EXCEPT !.tasks[key] =
                [@ EXCEPT !.status = "Reclaimed",
                          !.status_update_timestamp = unix_timestamp,
                          !.reward_amount_locked = 0]])

\* ------------------------------------------------------------ transactions
\* One instruction: the accounts are validated, then the handler runs on them.
initialize_program_ix(st, minimum_reward_amount, denial_penalty_duration) ==
    LET ctx == InitializeProgram(st) IN
    IF ctx.err # "Ok" THEN ctx
    ELSE initialize_program(ctx.st, minimum_reward_amount, denial_penalty_duration)

initialize_admin_counter_ix(st, admin) ==
    LET ctx == InitializeAdminCounter(st, admin) IN
    IF ctx.err # "Ok" THEN ctx
    ELSE initialize_admin_counter(ctx.st, admin)

create_task_ix(st, consigner, task_id, reward_amount, duration_seconds, unix_timestamp) ==
    LET ctx == CreateTask(st, consigner, task_id) IN
    IF ctx.err # "Ok" THEN ctx
    ELSE create_task(ctx.st, consigner, task_id, reward_amount, duration_seconds,
                     unix_timestamp)

accept_task_ix(st, var, signer, key, recipient, recipient_account, unix_timestamp) ==
    LET ctx == AcceptTask(st, var, signer, key) IN
    IF ctx.err # "Ok" THEN ctx
    ELSE accept_task(ctx.st, var, signer, key, recipient, recipient_account,
                     unix_timestamp)

reject_task_ix(st, var, signer, key, unix_timestamp) ==
    LET ctx == RejectTask(st, var, signer, key) IN
    IF ctx.err # "Ok" THEN ctx
    ELSE reject_task(ctx.st, var, signer, key, unix_timestamp)

reclaim_task_funds_ix(st, var, signer, key, unix_timestamp) ==
    LET ctx == ReclaimTaskFunds(st, signer, key) IN
    IF ctx.err # "Ok" THEN ctx
    ELSE reclaim_task_funds(ctx.st, var, signer, key, unix_timestamp)

\* The transaction's effect on the accounts and the record of its outcome.
Transact(op, r) ==
    LET st == Commit(Accounts, r) IN
    /\ config' = st.config
    /\ tasks' = st.tasks
    /\ counters' = st.counters
    /\ balance' = st.balance
    /\ custody' = st.custody
    /\ last' = [op |-> op, err |-> r.err]
    /\ payouts' = [k \in DOMAIN payouts |->
                       IF st.custody[k] < custody[k]
                       THEN IF op = "accept_task"
                            THEN [payouts[k] EXCEPT !.accept = @ + 1]
                            ELSE [payouts[k] EXCEPT !.reclaim = @ + 1]
                       ELSE payouts[k]]
    /\ rejections' = [k \in DOMAIN rejections |->
                          IF op = "reject_task" /\ r.err = "Ok"
                             /\ st.tasks[k] # tasks[k]
                          THEN rejections[k] + 1
                          ELSE rejections[k]]
    /\ UNCHANGED <<variant, now>>

Init ==
    /\ variant \in Variants
    /\ config = NoConfig
    /\ tasks = [k \in TaskKeys |-> NoTaskAccount]
    /\ counters = [w \in Wallets |-> NoCounter]
    /\ balance = [w \in Wallets |-> InitialLamports]
    /\ custody = [k \in TaskKeys |-> 0]
    /\ now = 0
    /\ last = [op |-> "none", err |-> "Ok"]
    /\ payouts = [k \in TaskKeys |-> [accept |-> 0, reclaim |-> 0]]
    /\ rejections = [k \in TaskKeys |-> 0]

InitializeProgramTx(minimum_reward_amount, denial_penalty_duration) ==
    Transact("initialize_program",
             initialize_program_ix(Accounts, minimum_reward_amount,
                                   denial_penalty_duration))

InitializeAdminCounterTx(admin) ==
    /\ variant = "pre_created"
    /\ Transact("initialize_admin_counter", initialize_admin_counter_ix(Accounts, admin))

CreateTaskTx(consigner, task_id, reward_amount, duration_seconds) ==
    Transact("create_task",
             create_task_ix(Accounts, consigner, task_id, reward_amount,
                            duration_seconds, now))

AcceptTaskTx(signer, key, recipient, recipient_account) ==
    Transact("accept_task",
             accept_task_ix(Accounts, variant, signer, key, recipient,
                            recipient_account, now))

RejectTaskTx(signer, key) ==
    Transact("reject_task", reject_task_ix(Accounts, variant, signer, key, now))

ReclaimTaskFundsTx(signer, key) ==
    Transact("reclaim_task_funds",
             reclaim_task_funds_ix(Accounts, variant, signer, key, now))

\* The clock only moves forward.
Tick ==
    /\ now < MaxTime
    /\ now' = now + 1
    /\ UNCHANGED <<variant, config, tasks, counters, balance, custody, last, payouts,
                   rejections>>

Next ==
    \/ \E m \in MinimumRewards, d \in PenaltyDurations : InitializeProgramTx(m, d)
    \/ \E a \in Wallets : InitializeAdminCounterTx(a)
    \/ \E c \in Consigners, t \in TaskIds, r \in RewardAmounts, d \in Durations :
           CreateTaskTx(c, t, r, d)
    \/ \E s \in Wallets, k \in TaskKeys, r \in Wallets, ra \in Wallets :
           AcceptTaskTx(s, k, r, ra)
    \/ \E s \in Wallets, k \in TaskKeys : RejectTaskTx(s, k)
    \/ \E s \in Wallets, k \in TaskKeys : ReclaimTaskFundsTx(s, k)
    \/ Tick

Spec == Init /\ [][Next]_vars

\* -------------------------------------------- two tasks of one consigner
\* The same program with two task identifiers for the consigner, so that two
\* records share the consigner's wallet and counter.  The callers are the
\* consigners and the reward is paid to the recipient's own account.
PairTaskIds == {1, 2}
PairTaskKeys == Consigners \X PairTaskIds
PairMinimumRewards == {1}
PairPenaltyDurations == {0}
PairRewardAmounts == 1..InitialLamports
PairDurations == {0}

InitPair ==
    /\ variant \in Variants
    /\ config = NoConfig
    /\ tasks = [k \in PairTaskKeys |-> NoTaskAccount]
    /\ counters = [w \in Wallets |-> NoCounter]
    /\ balance = [w \in Wallets |-> InitialLamports]
    /\ custody = [k \in PairTaskKeys |-> 0]
    /\ now = 0
    /\ last = [op |-> "none", err |-> "Ok"]
    /\ payouts = [k \in PairTaskKeys |-> [accept |-> 0, reclaim |-> 0]]
    /\ rejections = [k \in PairTaskKeys |-> 0]

NextPair ==
    \/ \E m \in PairMinimumRewards, d \in PairPenaltyDurations : InitializeProgramTx(m, d)
    \/ \E a \in Consigners : InitializeAdminCounterTx(a)
    \/ \E c \in Consigners, t \in PairTaskIds, r \in PairRewardAmounts,
          d \in PairDurations :
           CreateTaskTx(c, t, r, d)
    \/ \E k \in PairTaskKeys, r \in Wallets : AcceptTaskTx(k[1], k, r, r)
    \/ \E k \in PairTaskKeys : RejectTaskTx(k[1], k)
    \/ \E k \in PairTaskKeys : ReclaimTaskFundsTx(k[1], k)
    \/ Tick

SpecPair == InitPair /\ [][NextPair]_vars

\* ------------------------------------------- the clock runs to its end
\* The same program with a clock that advances up to the largest i64 value,
\* so that every representable deadline is reached, and a consigner who keeps
\* calling reclaim_task_funds.  The callers are the consigners.
LiveMinimumRewards == {1}
LiveRewardAmounts == {1}
LiveDurations == {0, I64Max}

TickToMax ==
    /\ now < I64Max
    /\ now' = now + 1
    /\ UNCHANGED <<variant, config, tasks, counters, balance, custody, last, payouts,
                   rejections>>

NextLive ==
    \/ \E m \in LiveMinimumRewards, d \in PenaltyDurations : InitializeProgramTx(m, d)
    \/ \E a \in Consigners : InitializeAdminCounterTx(a)
    \/ \E c \in Consigners, t \in TaskIds, r \in LiveRewardAmounts, d \in LiveDurations :
           CreateTaskTx(c, t, r, d)
    \/ \E k \in TaskKeys, r \in Wallets : AcceptTaskTx(k[1], k, r, r)
    \/ \E k \in TaskKeys : RejectTaskTx(k[1], k)
    \/ \E k \in TaskKeys : ReclaimTaskFundsTx(k[1], k)
    \/ TickToMax

\* The clock advances while it can, and the consigner's reclaim_task_funds is
\* submitted again and again.
SpecLive ==
    /\ Init
    /\ [][NextLive]_vars
    /\ WF_vars(TickToMax)
    /\ \A k \in TaskKeys : WF_vars(ReclaimTaskFundsTx(k[1], k))

\* ================================================================= claims
\* A call of accept_task or reject_task by `signer` on `key` that passes the
\* accounts validation and so reaches the handler body.
DecisionReachesHandler(signer, key) ==
    AcceptTask(Accounts, variant, signer, key).err = "Ok"

\* The same for reclaim_task_funds.
ReclaimReachesHandler(signer, key) ==
    ReclaimTaskFunds(Accounts, signer, key).err = "Ok"

\* The transaction with outcome r leaves every account as it was.
NoChange(r) == Commit(Accounts, r) = Accounts

AcceptOutcome(signer, key, recipient, recipient_account) ==
    accept_task_ix(Accounts, variant, signer, key, recipient, recipient_account, now)

RejectOutcome(signer, key) == reject_task_ix(Accounts, variant, signer, key, now)

ReclaimOutcome(signer, key) == reclaim_task_funds_ix(Accounts, variant, signer, key, now)

\* C1: the reward locked in a task leaves the task's custody at most once over
\* the whole behaviour: at most one payout, by accept_task or by
\* reclaim_task_funds, never both and never twice.
C1_ExactlyOncePayout ==
    \A k \in TaskKeys : payouts[k].accept + payouts[k].reclaim <= 1

\* C1 witness: the reward was paid out by accept_task and a later
\* reclaim_task_funds was refused.
C1_Witness ==
    \E k \in TaskKeys :
        /\ payouts[k].accept = 1
        /\ custody[k] = 0
        /\ last = [op |-> "reclaim_task_funds", err |-> "CannotReclaimFunds"]

\* C2 (as claimed): in every reachable state reward_amount_locked of a task
\* record equals the lamports held in the task's custody, also after the
\* accept_task payout.
C2_LockedEqualsCustody ==
    \A k \in TaskKeys :
        tasks[k].is_initialized => tasks[k].reward_amount_locked = custody[k]

\* C3: a step changes the status of an existing record only Open -> Approved
\* (accept_task), Open -> Rejected (reject_task), Rejected -> Reclaimed or
\* Open -> Reclaimed (reclaim_task_funds); so Approved and Reclaimed are
\* terminal, nothing returns to Open, and a record never disappears.
StatusChangeAllowed(old, new, op) ==
    \/ old = "Open" /\ new = "Approved" /\ op = "accept_task"
    \/ old = "Open" /\ new = "Rejected" /\ op = "reject_task"
    \/ old = "Rejected" /\ new = "Reclaimed" /\ op = "reclaim_task_funds"
    \/ old = "Open" /\ new = "Reclaimed" /\ op = "reclaim_task_funds"

C3_StatusTransitions ==
    [][\A k \in TaskKeys :
           tasks[k].is_initialized =>
               /\ tasks'[k].is_initialized
               /\ tasks'[k].status # tasks[k].status =>
                      StatusChangeAllowed(tasks[k].status, tasks'[k].status, last'.op)]_vars

\* C3 witness: a record went Open -> Rejected -> Reclaimed.
C3_Witness ==
    \E k \in TaskKeys :
        /\ tasks[k].status = "Reclaimed"
        /\ counters[tasks[k].consigner_wallet].reject_count = 1
        /\ last = [op |-> "reclaim_task_funds", err |-> "Ok"]

\* C4 (as claimed): for a caller other than the stored consigner, in any status
\* and at any time, accept_task and reject_task fail with NotTaskConsigner and
\* reclaim_task_funds fails with NotConsigner.
C4_StrangerErrorAsClaimed ==
    \A s \in Wallets, k \in TaskKeys :
        (tasks[k].is_initialized /\ s # tasks[k].consigner_wallet) =>
            /\ \A r \in Wallets, ra \in Wallets :
                   AcceptOutcome(s, k, r, ra).err = "NotTaskConsigner"
            /\ RejectOutcome(s, k).err = "NotTaskConsigner"
            /\ ReclaimOutcome(s, k).err = "NotConsigner"

\* C4 (amended): accept_task, reject_task and reclaim_task_funds succeed only for
\* the stored consigner.  For any other caller, in any status and at any time,
\* nothing changes, reclaim_task_funds fails with NotConsigner, and accept_task
\* and reject_task fail with NotTaskConsigner when the caller's counter account
\* is loaded or created; in the pre_created variant a caller who has no counter
\* fails with AccountNotInitialized before the consigner is compared.
StrangerDecisionError(s) ==
    IF variant = "pre_created" /\ ~counters[s].exists
    THEN "AccountNotInitialized"
    ELSE "NotTaskConsigner"

C4_OnlyConsigner ==
    \A s \in Wallets, k \in TaskKeys :
        (tasks[k].is_initialized /\ s # tasks[k].consigner_wallet) =>
            /\ \A r \in Wallets, ra \in Wallets :
                   /\ AcceptOutcome(s, k, r, ra).err = StrangerDecisionError(s)
                   /\ NoChange(AcceptOutcome(s, k, r, ra))
            /\ RejectOutcome(s, k).err = StrangerDecisionError(s)
            /\ NoChange(RejectOutcome(s, k))
            /\ ReclaimOutcome(s, k).err = "NotConsigner"
            /\ NoChange(ReclaimOutcome(s, k))

\* C4 witness: a stranger's accept_task on an open, unexpired task was refused
\* with NotTaskConsigner.
C4_Witness ==
    \E k \in TaskKeys :
        /\ tasks[k].is_initialized
        /\ tasks[k].status = "Open"
        /\ now <= tasks[k].expiration_timestamp
        /\ last = [op |-> "accept_task", err |-> "NotTaskConsigner"]

\* C5: once a record has left Open, every accept_task and reject_task call that
\* reaches the handler fails with TaskNotOpen and changes nothing.
C5_TaskNotOpen ==
    \A s \in Wallets, k \in TaskKeys :
        (DecisionReachesHandler(s, k) /\ tasks[k].status # "Open") =>
            /\ \A r \in Wallets, ra \in Wallets :
                   /\ AcceptOutcome(s, k, r, ra).err = "TaskNotOpen"
                   /\ NoChange(AcceptOutcome(s, k, r, ra))
            /\ RejectOutcome(s, k).err = "TaskNotOpen"
            /\ NoChange(RejectOutcome(s, k))

\* C5 witness: a second accept_task after a successful one failed with
\* TaskNotOpen.
C5_Witness ==
    \E k \in TaskKeys :
        /\ tasks[k].status = "Approved"
        /\ payouts[k].accept = 1
        /\ last = [op |-> "accept_task", err |-> "TaskNotOpen"]

\* C6: on an Open record, accept_task and reject_task calls that reach the
\* handler fail with TaskExpired, changing nothing, exactly when
\* now > expiration_timestamp; at now <= expiration_timestamp (the instant of
\* expiration included) they are not refused as expired.
C6_TaskExpired ==
    \A s \in Wallets, k \in TaskKeys :
        (DecisionReachesHandler(s, k) /\ tasks[k].status = "Open") =>
            /\ \A r \in Wallets, ra \in Wallets :
                   /\ (AcceptOutcome(s, k, r, ra).err = "TaskExpired")
                          <=> (now > tasks[k].expiration_timestamp)
                   /\ now > tasks[k].expiration_timestamp
                          => NoChange(AcceptOutcome(s, k, r, ra))
            /\ (RejectOutcome(s, k).err = "TaskExpired")
                   <=> (now > tasks[k].expiration_timestamp)
            /\ now > tasks[k].expiration_timestamp => NoChange(RejectOutcome(s, k))

\* C6 witness: a decision on an Open record after its expiration was refused
\* with TaskExpired.
C6_Witness ==
    \E k \in TaskKeys :
        /\ tasks[k].is_initialized
        /\ tasks[k].status = "Open"
        /\ now > tasks[k].expiration_timestamp
        /\ last = [op |-> "reject_task", err |-> "TaskExpired"]

\* The lockup deadline of a rejected record, as an unbounded integer.
LockupDeadline(k) ==
    tasks[k].status_update_timestamp + config.denial_penalty_duration

\* C7 (as claimed): every reclaim_task_funds by the consigner on a Rejected
\* record before the lockup deadline fails with DenialLockupActive.
C7_LockupErrorAsClaimed ==
    \A s \in Wallets, k \in TaskKeys :
        (ReclaimReachesHandler(s, k) /\ tasks[k].status = "Rejected"
            /\ now < LockupDeadline(k)) =>
            ReclaimOutcome(s, k).err = "DenialLockupActive"

\* C7 (amended): every reclaim_task_funds by the consigner on a Rejected record
\* before the lockup deadline fails and changes nothing (the status stays
\* Rejected, the reward stays in custody): with DenialLockupActive when the
\* deadline status_update_timestamp + denial_penalty_duration is representable
\* in i64, with TimestampOverflow when it is not.
C7_DenialLockup ==
    \A s \in Wallets, k \in TaskKeys :
        (ReclaimReachesHandler(s, k) /\ tasks[k].status = "Rejected"
            /\ now < LockupDeadline(k)) =>
            /\ ReclaimOutcome(s, k).err =
                   IF LockupDeadline(k) <= I64Max
                   THEN "DenialLockupActive"
                   ELSE "TimestampOverflow"
            /\ NoChange(ReclaimOutcome(s, k))
            /\ custody[k] = tasks[k].reward_amount_locked

\* C7 witness: a reclaim of a rejected task inside the lockup was refused with
\* DenialLockupActive.
C7_Witness ==
    \E k \in TaskKeys :
        /\ tasks[k].status = "Rejected"
        /\ now < LockupDeadline(k)
        /\ custody[k] > 0
        /\ last = [op |-> "reclaim_task_funds", err |-> "DenialLockupActive"]

\* What a successful reclaim_task_funds by the consigner on record k makes of
\* the accounts: the locked reward moves from custody to the consigner, the
\* record becomes Reclaimed at `now` with nothing locked, nothing else changes.
ReclaimEffect(k) ==
    LET consigner == tasks[k].consigner_wallet
        locked == tasks[k].reward_amount_locked
    IN [Accounts EXCEPT
            !.custody[k] = @ - locked,
            !.balance[consigner] = @ + locked,
            !.tasks[k] = [@ EXCEPT !.status = "Reclaimed",
                                   !.status_update_timestamp = now,
                                   !.reward_amount_locked = 0]]

\* C8: reclaim_task_funds by the consigner on a Rejected record at any time
\* now >= status_update_timestamp + denial_penalty_duration succeeds, moves
\* exactly reward_amount_locked (all of the custody) to the consigner and sets
\* status = Reclaimed, status_update_timestamp = now, reward_amount_locked = 0.
C8_ReclaimAfterLockup ==
    \A s \in Wallets, k \in TaskKeys :
        (ReclaimReachesHandler(s, k) /\ tasks[k].status = "Rejected"
            /\ now >= LockupDeadline(k)) =>
            /\ ReclaimOutcome(s, k).err = "Ok"
            /\ ReclaimOutcome(s, k).st = ReclaimEffect(k)
            /\ ReclaimEffect(k).custody[k] = 0

\* C8 witness: a rejected task under a positive lockup was reclaimed: the
\* consigner holds the reward again and nothing is locked.
C8_Witness ==
    \E k \in TaskKeys :
        /\ tasks[k].status = "Reclaimed"
        /\ counters[tasks[k].consigner_wallet].reject_count = 1
        /\ config.denial_penalty_duration > 0
        /\ tasks[k].status_update_timestamp = now
        /\ tasks[k].reward_amount_locked = 0
        /\ custody[k] = 0
        /\ balance[tasks[k].consigner_wallet] = InitialLamports
        /\ last = [op |-> "reclaim_task_funds", err |-> "Ok"]

\* C9: reclaim_task_funds by the consigner on an Open record with
\* now > expiration_timestamp succeeds whatever denial_penalty_duration is: the
\* whole reward returns to the consigner, the status becomes Reclaimed and
\* reward_amount_locked becomes 0.
C9_ReclaimExpired ==
    \A s \in Wallets, k \in TaskKeys :
        (ReclaimReachesHandler(s, k) /\ tasks[k].status = "Open"
            /\ now > tasks[k].expiration_timestamp) =>
            /\ ReclaimOutcome(s, k).err = "Ok"
            /\ ReclaimOutcome(s, k).st = ReclaimEffect(k)
            /\ ReclaimEffect(k).custody[k] = 0

\* C9 witness: an expired, undecided task was reclaimed one tick after its
\* expiration although the configured lockup has not elapsed since.
C9_Witness ==
    \E k \in TaskKeys :
        /\ tasks[k].status = "Reclaimed"
        /\ counters[tasks[k].consigner_wallet].reject_count = 0
        /\ now < tasks[k].expiration_timestamp + config.denial_penalty_duration
        /\ tasks[k].reward_amount_locked = 0
        /\ custody[k] = 0
        /\ balance[tasks[k].consigner_wallet] = InitialLamports
        /\ last = [op |-> "reclaim_task_funds", err |-> "Ok"]

\* C10: reclaim_task_funds that reaches the handler on an Approved or a
\* Reclaimed record fails with CannotReclaimFunds at every time and changes no
\* balance and no record field.
C10_NoReclaimWhenTerminal ==
    \A s \in Wallets, k \in TaskKeys :
        (ReclaimReachesHandler(s, k) /\ tasks[k].status \in {"Approved", "Reclaimed"}) =>
            /\ ReclaimOutcome(s, k).err = "CannotReclaimFunds"
            /\ NoChange(ReclaimOutcome(s, k))

\* C10 witness: a second reclaim_task_funds on a reclaimed record was refused.
C10_Witness ==
    \E k \in TaskKeys :
        /\ tasks[k].status = "Reclaimed"
        /\ payouts[k].reclaim = 1
        /\ last = [op |-> "reclaim_task_funds", err |-> "CannotReclaimFunds"]

\* A create_task call for record k that passes the accounts validation: the
\* configuration exists and no record is stored at k.
CreateReachesHandler(k) == CreateTask(Accounts, k[1], k[2]).err = "Ok"

CreateOutcome(k, reward_amount, duration_seconds) ==
    create_task_ix(Accounts, k[1], k[2], reward_amount, duration_seconds, now)

\* C11: create_task with reward_amount < minimum_reward_amount fails with
\* RewardAmountTooLow, moves no balance and creates no record; with
\* reward_amount >= minimum_reward_amount (equality included) the amount check
\* passes.
C11_RewardAmountTooLow ==
    \A k \in DOMAIN tasks, r \in RewardAmounts, d \in Durations :
        CreateReachesHandler(k) =>
            /\ (CreateOutcome(k, r, d).err = "RewardAmountTooLow")
                   <=> (r < config.minimum_reward_amount)
            /\ r < config.minimum_reward_amount => NoChange(CreateOutcome(k, r, d))

\* C11 witness: a create_task below the configured minimum was refused and
\* left no record and the consigner's balance whole.
C11_Witness ==
    \E k \in DOMAIN tasks :
        /\ config.is_initialized
        /\ ~tasks[k].is_initialized
        /\ custody[k] = 0
        /\ balance[k[1]] = InitialLamports
        /\ last = [op |-> "create_task", err |-> "RewardAmountTooLow"]

\* What a successful create_task makes of the accounts.
CreateEffect(k, reward_amount, duration_seconds) ==
    [Accounts EXCEPT
        !.balance[k[1]] = @ - reward_amount,
        !.custody[k] = @ + reward_amount,
        !.tasks[k] = [ is_initialized          |-> TRUE,
                       task_id                 |-> k[2],
                       consigner_wallet        |-> k[1],
                       reward_amount_locked    |-> reward_amount,
                       creation_timestamp      |-> now,
                       duration_seconds        |-> duration_seconds,
                       expiration_timestamp    |-> now + duration_seconds,
                       status                  |-> "Open",
                       status_update_timestamp |-> now,
                       assigned_reporter       |-> "None" ]]

\* C12: a create_task that passes the amount check and is funded succeeds when
\* now + duration_seconds is an i64, and then stores status Open, the reward as
\* reward_amount_locked, creation_timestamp = status_update_timestamp = now,
\* expiration_timestamp = now + duration_seconds exactly, and moves the reward
\* from the consigner to custody; when the sum overflows it fails with
\* TimestampOverflow and neither a record nor the transfer made before the
\* check is left behind.
C12_CreateEffect ==
    \A k \in DOMAIN tasks, r \in RewardAmounts, d \in Durations :
        (CreateReachesHandler(k) /\ r >= config.minimum_reward_amount
            /\ balance[k[1]] >= r) =>
            IF now + d <= I64Max /\ now + d >= I64Min
            THEN /\ CreateOutcome(k, r, d).err = "Ok"
                 /\ CreateOutcome(k, r, d).st = CreateEffect(k, r, d)
            ELSE /\ CreateOutcome(k, r, d).err = "TimestampOverflow"
                 /\ NoChange(CreateOutcome(k, r, d))

\* C12 witness: a create_task failed with TimestampOverflow after its handler
\* had moved the reward into custody, and no record and no transfer is left.
C12_Witness ==
    \E k \in DOMAIN tasks :
        /\ last = [op |-> "create_task", err |-> "TimestampOverflow"]
        /\ ~tasks[k].is_initialized
        /\ custody[k] = 0
        /\ balance[k[1]] = InitialLamports
        /\ \E r \in RewardAmounts, d \in Durations :
               /\ CreateOutcome(k, r, d).err = "TimestampOverflow"
               /\ CreateOutcome(k, r, d).st.custody[k] = r
               /\ r > 0

\* C13: create_task for a pair at which a record exists fails, whatever the
\* record's status, and changes neither the record nor any balance.
C13_CreateOnExisting ==
    \A k \in DOMAIN tasks, r \in RewardAmounts, d \in Durations :
        tasks[k].is_initialized =>
            /\ CreateOutcome(k, r, d).err = "AccountAlreadyInUse"
            /\ NoChange(CreateOutcome(k, r, d))

\* C13 witness: a create_task over a record whose reward was already paid out
\* was refused.
C13_Witness ==
    \E k \in DOMAIN tasks :
        /\ tasks[k].status \in {"Approved", "Reclaimed"}
        /\ custody[k] = 0
        /\ last = [op |-> "create_task", err |-> "AccountAlreadyInUse"]

\* C14: accept_task(recipient) by the consigner on an Open record with
\* now <= expiration_timestamp (the caller's counter loaded and below its
\* maximum) succeeds when the recipient account is the recipient's, and every
\* successful call increases the recipient's balance by exactly
\* reward_amount_locked, decreases custody by the same amount, sets status
\* Approved, status_update_timestamp = now and assigned_reporter = recipient.
C14_AcceptPaysRecipient ==
    \A k \in DOMAIN tasks, r \in Wallets, ra \in Wallets :
        (/\ DecisionReachesHandler(k[1], k)
         /\ tasks[k].status = "Open"
         /\ now <= tasks[k].expiration_timestamp
         /\ counters[k[1]].accept_count < U64Max) =>
            LET out == AcceptOutcome(k[1], k, r, ra) IN
            /\ ra = r => out.err = "Ok"
            /\ out.err = "Ok" =>
                 /\ out.st.balance[r] = balance[r] + tasks[k].reward_amount_locked
                 /\ out.st.custody[k] = custody[k] - tasks[k].reward_amount_locked
                 /\ out.st.tasks[k].status = "Approved"
                 /\ out.st.tasks[k].status_update_timestamp = now
                 /\ out.st.tasks[k].assigned_reporter = r

\* The accounts as a transaction leaves them.
AccountsAfter ==
    [ config |-> config', tasks |-> tasks', counters |-> counters',
      balance |-> balance', custody |-> custody' ]

Counts(w) == <<counters[w].accept_count, counters[w].reject_count>>

CountsIn(st, w) == <<st.counters[w].accept_count, st.counters[w].reject_count>>

\* The transaction with outcome r leaves the counts of every wallet but s.
OnlyCountsOf(s, r) ==
    \A w \in Wallets \ {s} : CountsIn(Commit(Accounts, r), w) = Counts(w)

\* The sum of history h over the records in keys.
RECURSIVE SumOver(_, _)
SumOver(h, keys) ==
    IF keys = {} THEN 0
    ELSE LET k == CHOOSE x \in keys : TRUE IN h[k] + SumOver(h, keys \ {k})

TasksOf(w) == {k \in DOMAIN tasks : k[1] = w}

\* C16: each successful accept_task increases the caller's accept_count by
\* exactly 1 and leaves reject_count unchanged; each successful reject_task
\* increases the caller's reject_count by exactly 1 and leaves accept_count
\* unchanged; no other operation and no failed call changes either count of
\* any wallet; so each consigner's counts equal the numbers of that
\* consigner's successful accepts and rejects.
C16_CountsSuccesses ==
    /\ \A w \in Wallets :
          /\ counters[w].accept_count
               = SumOver([k \in DOMAIN payouts |-> payouts[k].accept], TasksOf(w))
          /\ counters[w].reject_count = SumOver(rejections, TasksOf(w))
    /\ \A s \in Wallets, k \in DOMAIN tasks, r \in Wallets, ra \in Wallets :
          LET accepted == AcceptOutcome(s, k, r, ra) IN
          /\ OnlyCountsOf(s, accepted)
          /\ CountsIn(Commit(Accounts, accepted), s)
               = IF accepted.err = "Ok"
                 THEN <<Counts(s)[1] + 1, Counts(s)[2]>>
                 ELSE Counts(s)
    /\ \A s \in Wallets, k \in DOMAIN tasks :
          LET rejected == RejectOutcome(s, k) IN
          /\ OnlyCountsOf(s, rejected)
          /\ CountsIn(Commit(Accounts, rejected), s)
               = IF rejected.err = "Ok"
                 THEN <<Counts(s)[1], Counts(s)[2] + 1>>
                 ELSE Counts(s)
          /\ OnlyCountsOf("None", ReclaimOutcome(s, k))
          /\ OnlyCountsOf("None", initialize_admin_counter_ix(Accounts, s))
    /\ \A k \in DOMAIN tasks, r \in RewardAmounts, d \in Durations :
          OnlyCountsOf("None", CreateOutcome(k, r, d))
    /\ \A m \in MinimumRewards, d \in PenaltyDurations :
          OnlyCountsOf("None", initialize_program_ix(Accounts, m, d))

\* C16 witness: a consigner's successful reject_task is counted once, and the
\* reclaim that followed it has left both counts alone.
C16_Witness ==
    \E k \in DOMAIN tasks :
        /\ tasks[k].status = "Reclaimed"
        /\ rejections[k] = 1
        /\ counters[k[1]].reject_count = 1
        /\ counters[k[1]].accept_count = 0
        /\ last = [op |-> "reclaim_task_funds", err |-> "Ok"]

\* The consigner of record k holds no counter and the record is Open and
\* unexpired: the consigner's first decision.
FirstDecision(k) ==
    /\ tasks[k].is_initialized
    /\ tasks[k].status = "Open"
    /\ now <= tasks[k].expiration_timestamp
    /\ ~counters[k[1]].exists

NewCounter(w, accept_count, reject_count) ==
    [exists |-> TRUE, admin |-> w, accept_count |-> accept_count,
     reject_count |-> reject_count]

\* C18 as claimed: in both programs a consigner without a counter succeeds
\* with the first accept_task or reject_task, which creates the counter owned
\* by the caller and leaves the respective count at 1 and the other at 0.
C18_CounterOnFirstUse ==
    \A k \in DOMAIN tasks, r \in Wallets :
        FirstDecision(k) =>
            /\ AcceptOutcome(k[1], k, r, r).err = "Ok"
            /\ AcceptOutcome(k[1], k, r, r).st.counters[k[1]] = NewCounter(k[1], 1, 0)
            /\ RejectOutcome(k[1], k).err = "Ok"
            /\ RejectOutcome(k[1], k).st.counters[k[1]] = NewCounter(k[1], 0, 1)

\* C18 amended: a consigner's first decision succeeds without a counter in
\* the first_use program, which creates the counter owned by the caller and
\* leaves the respective count at 1; in the pre_created program it fails with
\* AccountNotInitialized and changes nothing, until initialize_admin_counter
\* has created the counter with both counts at zero, after which the first
\* decision succeeds and leaves the respective count at 1.
C18_CounterPerVariant ==
    \A k \in DOMAIN tasks, r \in Wallets :
        FirstDecision(k) =>
            IF variant = "first_use"
            THEN /\ AcceptOutcome(k[1], k, r, r).err = "Ok"
                 /\ AcceptOutcome(k[1], k, r, r).st.counters[k[1]]
                        = NewCounter(k[1], 1, 0)
                 /\ RejectOutcome(k[1], k).err = "Ok"
                 /\ RejectOutcome(k[1], k).st.counters[k[1]] = NewCounter(k[1], 0, 1)
            ELSE LET created == initialize_admin_counter_ix(Accounts, k[1])
                     accepted == accept_task_ix(created.st, variant, k[1], k, r, r, now)
                     rejected == reject_task_ix(created.st, variant, k[1], k, now)
                 IN
                 /\ AcceptOutcome(k[1], k, r, r).err = "AccountNotInitialized"
                 /\ RejectOutcome(k[1], k).err = "AccountNotInitialized"
                 /\ created.err = "Ok"
                 /\ created.st.counters[k[1]] = NewCounter(k[1], 0, 0)
                 /\ accepted.err = "Ok"
                 /\ accepted.st.counters[k[1]] = NewCounter(k[1], 1, 0)
                 /\ rejected.err = "Ok"
                 /\ rejected.st.counters[k[1]] = NewCounter(k[1], 0, 1)

\* C18 witness: in the first_use program, where no instruction creates a
\* counter, the consigner's accept_task succeeded and left a counter owned by
\* the consigner with accept_count 1.
C18_Witness ==
    \E k \in DOMAIN tasks :
        /\ variant = "first_use"
        /\ last = [op |-> "accept_task", err |-> "Ok"]
        /\ tasks[k].status = "Approved"
        /\ counters[k[1]] = NewCounter(k[1], 1, 0)

C17_CounterOverflow ==
    \A k \in DOMAIN tasks, r \in Wallets, ra \in Wallets :
        LET accepted == AcceptOutcome(k[1], k, r, ra)
            rejected == RejectOutcome(k[1], k)
            decidable == /\ DecisionReachesHandler(k[1], k)
                         /\ tasks[k].status = "Open"
                         /\ now <= tasks[k].expiration_timestamp
        IN
        /\ counters[k[1]].accept_count = U64Max =>
             /\ accepted.err # "Ok"
             /\ NoChange(accepted)
             /\ (decidable /\ ra = r) =>
                  /\ accepted.err = "CounterOverflow"
                  /\ accepted.st.custody[k] = 0
                  /\ accepted.st.tasks[k].status = "Approved"
        /\ counters[k[1]].reject_count = U64Max =>
             /\ rejected.err # "Ok"
             /\ NoChange(rejected)
             /\ decidable =>
                  /\ rejected.err = "CounterOverflow"
                  /\ rejected.st.tasks[k].status = "Rejected"

\* C17 witness: an accept_task failed with CounterOverflow at the maximum
\* accept_count; the task is still Open with its reward in custody.
C17_Witness ==
    \E k \in DOMAIN tasks :
        /\ last = [op |-> "accept_task", err |-> "CounterOverflow"]
        /\ counters[k[1]].accept_count = U64Max
        /\ tasks[k].status = "Open"
        /\ now <= tasks[k].expiration_timestamp
        /\ tasks[k].reward_amount_locked > 0
        /\ custody[k] = tasks[k].reward_amount_locked

\* The operations a consigner can apply to one of their records.
Operations ==
    [op : {"create_task"}, reward_amount : PairRewardAmounts,
     duration_seconds : PairDurations, recipient : {"None"}]
    \cup [op : {"accept_task"}, reward_amount : {0}, duration_seconds : {0},
          recipient : Wallets]
    \cup [op : {"reject_task", "reclaim_task_funds"}, reward_amount : {0},
          duration_seconds : {0}, recipient : {"None"}]

\* The transaction of operation o on record k, run on accounts st at the
\* current clock value: the accounts it leaves and its outcome.
Run(st, o, k) ==
    LET r == CASE o.op = "create_task" ->
                    create_task_ix(st, k[1], k[2], o.reward_amount,
                                   o.duration_seconds, now)
               [] o.op = "accept_task" ->
                    accept_task_ix(st, variant, k[1], k, o.recipient, o.recipient, now)
               [] o.op = "reject_task" ->
                    reject_task_ix(st, variant, k[1], k, now)
               [] OTHER ->
                    reclaim_task_funds_ix(st, variant, k[1], k, now)
    IN [st |-> Commit(st, r), err |-> r.err]

\* The outcomes of o1 on k1 and o2 on k2 in both orders: first o1 then o2,
\* and first o2 then o1.
BothOrders(o1, k1, o2, k2) ==
    { [a1 |-> a1, a2 |-> a2, b1 |-> b1, b2 |-> b2] :
        a1 \in {Run(Accounts, o1, k1)}, a2 \in {Run(Run(Accounts, o1, k1).st, o2, k2)},
        b2 \in {Run(Accounts, o2, k2)}, b1 \in {Run(Run(Accounts, o2, k2).st, o1, k1)} }

\* Each operation has the same outcome in both orders and the final accounts
\* are the same.
Commute(both) ==
    /\ both.a1.err = both.b1.err
    /\ both.a2.err = both.b2.err
    /\ both.a2.st = both.b1.st

\* One of the two operations fails, in one of the orders, for want of funds
\* in the consigner's wallet or for the consigner's counter being full.
Contend(both) ==
    {both.a1.err, both.a2.err, both.b1.err, both.b2.err}
        \cap {"InsufficientFunds", "CounterOverflow"} # {}

C21_StatusTimestampMonotone ==
    [][ \A k \in DOMAIN tasks :
            /\ tasks'[k].status_update_timestamp >= tasks[k].status_update_timestamp
            /\ (\/ tasks'[k].status # tasks[k].status
                \/ tasks'[k].is_initialized # tasks[k].is_initialized)
               => tasks'[k].status_update_timestamp = now ]_vars

\* C21 witness: a record created at an earlier clock value was reclaimed now,
\* and its status_update_timestamp moved forward to now.
C21_Witness ==
    \E k \in DOMAIN tasks :
        /\ last = [op |-> "reclaim_task_funds", err |-> "Ok"]
        /\ tasks[k].status = "Reclaimed"
        /\ tasks[k].creation_timestamp < now
        /\ tasks[k].status_update_timestamp = now

\* The fields of a Task Record that are written at creation only.
CreationFields(task_account) ==
    << task_account.is_initialized, task_account.task_id,
       task_account.consigner_wallet, task_account.creation_timestamp,
       task_account.duration_seconds, task_account.expiration_timestamp >>

\* The handler result r leaves the creation fields of every record.
KeepsCreationFields(r) ==
    \A k \in DOMAIN tasks : CreationFields(r.st.tasks[k]) = CreationFields(tasks[k])

\* C22: accept_task, reject_task and reclaim_task_funds, by any caller and
\* with any recipient, leave task_id, consigner_wallet, creation_timestamp,
\* duration_seconds and expiration_timestamp of every record unchanged, and
\* expiration_timestamp = creation_timestamp + duration_seconds holds for every
\* record in every reachable state.
C22_CreationFieldsFrozen ==
    /\ \A k \in DOMAIN tasks :
          tasks[k].is_initialized =>
              /\ tasks[k].expiration_timestamp
                   = tasks[k].creation_timestamp + tasks[k].duration_seconds
              /\ tasks[k].task_id = k[2]
              /\ tasks[k].consigner_wallet = k[1]
    /\ \A s \in Wallets, k \in DOMAIN tasks :
          /\ KeepsCreationFields(RejectOutcome(s, k))
          /\ KeepsCreationFields(ReclaimOutcome(s, k))
          /\ \A r \in Wallets, ra \in Wallets :
                KeepsCreationFields(AcceptOutcome(s, k, r, ra))

\* C22 witness: a record created with a negative duration has been reclaimed
\* at a later clock value and still carries its creation data.
C22_Witness ==
    \E k \in DOMAIN tasks :
        /\ tasks[k].status = "Reclaimed"
        /\ tasks[k].duration_seconds = -1
        /\ tasks[k].expiration_timestamp = tasks[k].creation_timestamp - 1
        /\ tasks[k].status_update_timestamp > tasks[k].creation_timestamp
        /\ last = [op |-> "reclaim_task_funds", err |-> "Ok"]

\* C23: for the consigner and an Open record, at every clock value exactly
\* one of the two holds: accept_task and reject_task pass their timing check
\* (they do not fail with TaskExpired, which is the case when
\* now <= expiration_timestamp) or reclaim_task_funds succeeds (which is the
\* case when now > expiration_timestamp); at now = expiration_timestamp
\* reclaim fails with CannotReclaimFunds while accept and reject succeed.
C23_WindowsPartitionTime ==
    \A k \in DOMAIN tasks, r \in Wallets :
        (/\ DecisionReachesHandler(k[1], k)
         /\ ReclaimReachesHandler(k[1], k)
         /\ tasks[k].status = "Open") =>
            LET accepted == AcceptOutcome(k[1], k, r, r)
                rejected == RejectOutcome(k[1], k)
                reclaimed == ReclaimOutcome(k[1], k)
                in_window == now <= tasks[k].expiration_timestamp
            IN
            /\ in_window <=> accepted.err # "TaskExpired"
            /\ in_window <=> rejected.err # "TaskExpired"
            /\ ~in_window <=> reclaimed.err = "Ok"
            /\ now = tasks[k].expiration_timestamp =>
                 /\ reclaimed.err = "CannotReclaimFunds"
                 /\ counters[k[1]].accept_count < U64Max => accepted.err = "Ok"
                 /\ counters[k[1]].reject_count < U64Max => rejected.err = "Ok"

\* C23 witness: at now = expiration_timestamp a reclaim of an Open record
\* was refused with CannotReclaimFunds, and the record can still be decided.
C23_Witness ==
    \E k \in DOMAIN tasks :
        /\ last = [op |-> "reclaim_task_funds", err |-> "CannotReclaimFunds"]
        /\ tasks[k].status = "Open"
        /\ now = tasks[k].expiration_timestamp
        /\ custody[k] > 0
        /\ RejectOutcome(k[1], k).err = "Ok"

\* C24: locked funds are never stuck forever: every Rejected record, as the
\* clock advances and the consigner calls reclaim_task_funds, is eventually
\* reclaimed with its reward returned, for every denial_penalty_duration and
\* every rejection time.
C24_RejectedEventuallyReclaimed ==
    \A k \in TaskKeys :
        (tasks[k].status = "Rejected")
            ~> (tasks[k].status = "Reclaimed" /\ custody[k] = 0)

\* C25: after every successful accept_task the wallet credited with the
\* reward is the one stored in assigned_reporter: a call in which the
\* recipient argument and the supplied recipient account differ does not
\* succeed.
C25_CreditedIsAssignedReporter ==
    \A s \in Wallets, k \in DOMAIN tasks, r \in Wallets, ra \in Wallets :
        LET out == AcceptOutcome(s, k, r, ra) IN
        out.err = "Ok" =>
            /\ r = ra
            /\ out.st.tasks[k].assigned_reporter = ra
            /\ out.st.balance[out.st.tasks[k].assigned_reporter]
                 = balance[out.st.tasks[k].assigned_reporter]
                     + tasks[k].reward_amount_locked

\* The outcome and the committed accounts of a call, as one value.
Observed(r) == [err |-> r.err, st |-> Commit(Accounts, r)]

\* C26: from accounts in which the caller's counter exists, the first_use and
\* the pre_created program give every accept_task, reject_task and
\* reclaim_task_funds call the same outcome and leave the same accounts
\* (create_task reads no counter and is one handler for both); so equal call
\* sequences keep the two programs in equal states with equal outcomes.
C26_VariantsAgree ==
    \A s \in Wallets, k \in DOMAIN tasks :
        counters[s].exists =>
            /\ \A r \in Wallets, ra \in Wallets :
                  Observed(accept_task_ix(Accounts, "first_use", s, k, r, ra, now))
                    = Observed(accept_task_ix(Accounts, "pre_created", s, k, r, ra, now))
            /\ Observed(reject_task_ix(Accounts, "first_use", s, k, now))
                 = Observed(reject_task_ix(Accounts, "pre_created", s, k, now))
            /\ Observed(reclaim_task_funds_ix(Accounts, "first_use", s, k, now))
                 = Observed(reclaim_task_funds_ix(Accounts, "pre_created", s, k, now))

\* The status of record k after the transaction with outcome r.
StatusAfter(r, k) == Commit(Accounts, r).tasks[k].status

\* C27: no reachable Task Record has status Expired and no handler writes
\* it; an Open record whose expiration has passed keeps status Open under
\* every accept_task and reject_task, and leaves Open only by a successful
\* reclaim_task_funds, to Reclaimed.
C27_NeverExpired ==
    /\ \A k \in DOMAIN tasks : tasks[k].status # "Expired"
    /\ \A s \in Wallets, k \in DOMAIN tasks :
          (/\ tasks[k].is_initialized
           /\ tasks[k].status = "Open"
           /\ now > tasks[k].expiration_timestamp) =>
              /\ StatusAfter(RejectOutcome(s, k), k) = "Open"
              /\ \A r \in Wallets, ra \in Wallets :
                    StatusAfter(AcceptOutcome(s, k, r, ra), k) = "Open"
              /\ LET reclaimed == ReclaimOutcome(s, k) IN
                 StatusAfter(reclaimed, k)
                    = IF reclaimed.err = "Ok" THEN "Reclaimed" ELSE "Open"

\* C27 witness: an accept_task on an Open record past its expiration was
\* refused and the record is still Open.
C27_Witness ==
    \E k \in DOMAIN tasks :
        /\ tasks[k].is_initialized
        /\ tasks[k].status = "Open"
        /\ now > tasks[k].expiration_timestamp
        /\ last = [op |-> "accept_task", err |-> "TaskExpired"]

\* All lamports in accounts st: the wallets and the task custodies.
TotalIn(st) == SumOver(st.balance, DOMAIN st.balance) + SumOver(st.custody, DOMAIN st.custody)

\* The transaction with outcome r moves amount from one party to another:
\* balances and custodies after it are as given.
Moves(r, balance_after, custody_after) ==
    /\ Commit(Accounts, r).balance = balance_after
    /\ Commit(Accounts, r).custody = custody_after

C29_NoLowerBoundOnDuration ==
    /\ \A k \in DOMAIN tasks, r \in RewardAmounts, d \in Durations :
          (/\ CreateReachesHandler(k)
           /\ r >= config.minimum_reward_amount
           /\ balance[k[1]] >= r
           /\ now + d <= I64Max /\ now + d >= I64Min) =>
              LET created == CreateOutcome(k, r, d)
                  decidable == AcceptTask(created.st, variant, k[1], k).err = "Ok"
                  accepted == accept_task_ix(created.st, variant, k[1], k, k[1], k[1], now)
                  rejected == reject_task_ix(created.st, variant, k[1], k, now)
                  reclaimed == reclaim_task_funds_ix(created.st, variant, k[1], k, now)
              IN
              /\ created.err = "Ok"
              /\ created.st.tasks[k].duration_seconds = d
              /\ IF d < 0
                 THEN /\ decidable => accepted.err = "TaskExpired"
                      /\ decidable => rejected.err = "TaskExpired"
                      /\ reclaimed.err = "Ok"
                 ELSE /\ (decidable /\ counters[k[1]].accept_count < U64Max)
                            => accepted.err = "Ok"
                      /\ (decidable /\ counters[k[1]].reject_count < U64Max)
                            => rejected.err = "Ok"
                      /\ reclaimed.err = "CannotReclaimFunds"
    /\ \A k \in DOMAIN tasks, r \in Wallets :
          (/\ tasks[k].is_initialized
           /\ tasks[k].status = "Open"
           /\ tasks[k].duration_seconds < 0) =>
              /\ now >= tasks[k].creation_timestamp
              /\ DecisionReachesHandler(k[1], k) =>
                    /\ AcceptOutcome(k[1], k, r, r).err = "TaskExpired"
                    /\ RejectOutcome(k[1], k).err = "TaskExpired"
              /\ ReclaimOutcome(k[1], k).err = "Ok"

\* C29 witness: a record created with a negative duration was reclaimed by
\* its consigner at its creation instant.
C29_Witness ==
    \E k \in DOMAIN tasks :
        /\ last = [op |-> "reclaim_task_funds", err |-> "Ok"]
        /\ tasks[k].status = "Reclaimed"
        /\ tasks[k].duration_seconds < 0
        /\ tasks[k].status_update_timestamp = tasks[k].creation_timestamp
        /\ now = tasks[k].creation_timestamp

====
